---- MODULE Spec2Model ----
(***************************************************************************)
(* The payload state machine of the update engine (class PayloadState of   *)
(* payload_state.h).  The object's fields and the two preference stores    *)
(* are one record, ps; every handler is an operator from the state before  *)
(* the call to the state after it, and every event of the driver is one    *)
(* action ps' = Handler(ps, inputs).  Time is counted in hundredths of a   *)
(* day, so that 5% of a day is a whole number; instant 0 is the epoch (the *)
(* null base::Time).                                                       *)
(***************************************************************************)
EXTENDS Integers, Sequences, FiniteSets, TLC

VARIABLES ps, wallclock, monotonic, boot_id, running_version

vars == <<ps, wallclock, monotonic, boot_id, running_version>>

-----------------------------------------------------------------------------
(* Bounds of the model. *)

\* The clocks tick at most this many times.
MaxClock == 1
\* Attempt, response and reboot counters are not pushed beyond this.
MaxCount == 1
\* The URL switch count is not pushed beyond this.
MaxSwitches == 2
\* The bytes downloaded since the last success, all sources together, are
\* not pushed beyond this.
MaxBytes == 2
\* The longest run of consecutive failures followed.
MaxFailures == 5
\* The most bytes downloaded and URLs switched where the clocks move.
MaxClockBytes == 1
MaxClockSwitches == 1
\* The most reboots counted where the device reboots.
MaxReboots == 2
\* The highest attempt number a store found at startup holds.
MaxStoredAttempt == 7
\* The highest URL index and failure count a store found at startup holds.
MaxStored == 2

-----------------------------------------------------------------------------
(* Program constants. *)

\* The download sources are 0 (HttpsServer), 1 (HttpServer), 2 (HttpPeer);
\* kNumDownloadSources itself is the sentinel, the extra slot of the arrays.
kNumDownloadSources == 3

\* Backoff is capped at this many days.
kMaxBackoffDays == 16

\* One day in the model's unit of time.
Day == 100

Epoch == 0

Min(a, b) == IF a < b THEN a ELSE b

RECURSIVE Pow2(_)
Pow2(n) == IF n <= 0 THEN 1 ELSE 2 * Pow2(n - 1)

DownloadSources == 0 .. (kNumDownloadSources - 1)
SourceSlots == 0 .. kNumDownloadSources
SourceName == <<"HttpsServer", "HttpServer", "HttpPeer">>

-----------------------------------------------------------------------------
(* Responses of the update server. *)

\* A payload URL: its string, the download source its scheme stands for
\* (the sentinel for a scheme that is none of the known sources), and
\* whether device policy allows it when HTTP downloads are disabled.
UrlA == [url |-> "https://a", source |-> 0, needs_http |-> FALSE]
UrlB == [url |-> "http://b", source |-> 1, needs_http |-> TRUE]
UrlP == [url |-> "https://p", source |-> 2, needs_http |-> FALSE]
UrlX == [url |-> "ftp://x", source |-> kNumDownloadSources, needs_http |-> FALSE]

\* The default-constructed response held before the first SetResponse.
NoResponse ==
    [version |-> "", size |-> 0, hash |-> "", payload_urls |-> << >>,
     max_failure_count_per_url |-> 0, is_delta_payload |-> FALSE]

\* A full payload on two URLs, two failures allowed per URL.
ResponseFull ==
    [version |-> "v1", size |-> 10, hash |-> "h1",
     payload_urls |-> <<UrlA, UrlB>>,
     max_failure_count_per_url |-> 2, is_delta_payload |-> FALSE]

\* A delta payload on three URLs, one failure allowed per URL.
ResponseDelta ==
    [version |-> "v2", size |-> 5, hash |-> "h2",
     payload_urls |-> <<UrlA, UrlP, UrlX>>,
     max_failure_count_per_url |-> 1, is_delta_payload |-> TRUE]

Responses == {ResponseFull, ResponseDelta}

Versions == {"v0", "v1", "v2"}

-----------------------------------------------------------------------------
(* The preference stores.  An integer key that is absent reads -1; a       *)
(* string key that is absent reads "".                                     *)

Absent == -1

BytesKeys(prefix) == {prefix \o SourceName[i + 1] : i \in DownloadSources}

IntKeys ==
    {"payload-attempt-number", "full-payload-attempt-number",
     "current-url-index", "current-url-failure-count", "url-switch-count",
     "backoff-expiry-time", "update-timestamp-start",
     "update-duration-uptime", "num-responses-seen", "num-reboots",
     "previous-boot-id", "target-version-attempts", "system-updated-marker"}
    \cup BytesKeys("current-bytes-downloaded-")
    \cup BytesKeys("total-bytes-downloaded-")

\* A signature is a tuple (see CalculateResponseSignature); the absent one
\* is the empty tuple.
EmptyPrefs ==
    [k \in IntKeys \cup {"response-signature", "target-version-uid"} |->
        IF k \in IntKeys THEN Absent
        ELSE IF k = "response-signature" THEN << >>
        ELSE ""]

EmptyPowerwashSafePrefs == [k \in {"rollback-version"} |-> ""]

GetPrefsKey(prefix, source) == prefix \o SourceName[source + 1]

\* The persisted value of an integer key: non-negative, 0 when the key is
\* absent or holds a negative value.
GetPersistedValue(s, key) == IF s.prefs[key] < 0 THEN 0 ELSE s.prefs[key]

-----------------------------------------------------------------------------
(* The object as constructed: every field at its default. *)

ZeroBytes == [i \in SourceSlots |-> 0]

PayloadState(prefs, powerwash_safe_prefs) ==
    [response_ |-> NoResponse,
     response_signature |-> << >>,
     payload_attempt_number |-> 0,
     full_payload_attempt_number |-> 0,
     url_index |-> 0,
     url_failure_count |-> 0,
     url_switch_count |-> 0,
     current_download_source |-> kNumDownloadSources,
     num_responses_seen |-> 0,
     num_reboots |-> 0,
     backoff_expiry_time |-> Epoch,
     update_timestamp_start |-> Epoch,
     update_timestamp_end |-> Epoch,
     update_duration_uptime |-> 0,
     update_duration_uptime_timestamp |-> monotonic,
     current_bytes_downloaded |-> ZeroBytes,
     total_bytes_downloaded |-> ZeroBytes,
     candidate_urls |-> << >>,
     rollback_version |-> "",
     prefs |-> prefs,
     powerwash_safe_prefs |-> powerwash_safe_prefs]

-----------------------------------------------------------------------------
(* Read-only accessors. *)

GetCurrentUrl(s) ==
    IF Len(s.candidate_urls) # 0 /\ s.url_index < Len(s.candidate_urls)
    THEN s.candidate_urls[s.url_index + 1].url
    ELSE IF Len(s.candidate_urls) # 0 THEN "out-of-bounds" ELSE ""

GetCurrentBytesDownloaded(s, source) ==
    IF source < kNumDownloadSources THEN s.current_bytes_downloaded[source] ELSE 0

GetTotalBytesDownloaded(s, source) ==
    IF source < kNumDownloadSources THEN s.total_bytes_downloaded[source] ELSE 0

-----------------------------------------------------------------------------
(* Setters: each sets the field and writes it through to its store. *)

SetResponseSignature(s, response_signature) ==
    [s EXCEPT !.response_signature = response_signature,
              !.prefs["response-signature"] = response_signature]

SetPayloadAttemptNumber(s, payload_attempt_number) ==
    [s EXCEPT !.payload_attempt_number = payload_attempt_number,
              !.prefs["payload-attempt-number"] = payload_attempt_number]

SetFullPayloadAttemptNumber(s, payload_attempt_number) ==
    [s EXCEPT !.full_payload_attempt_number = payload_attempt_number,
              !.prefs["full-payload-attempt-number"] = payload_attempt_number]

SetUrlIndex(s, url_index) ==
    [s EXCEPT !.url_index = url_index,
              !.prefs["current-url-index"] = url_index]

SetUrlFailureCount(s, url_failure_count) ==
    [s EXCEPT !.url_failure_count = url_failure_count,
              !.prefs["current-url-failure-count"] = url_failure_count]

SetUrlSwitchCountUnsaved(s, url_switch_count) ==
    [s EXCEPT !.url_switch_count = url_switch_count]

SetUrlSwitchCount(s, url_switch_count) ==
    [s EXCEPT !.url_switch_count = url_switch_count,
              !.prefs["url-switch-count"] = url_switch_count]

SetBackoffExpiryTime(s, new_time) ==
    [s EXCEPT !.backoff_expiry_time = new_time,
              !.prefs["backoff-expiry-time"] = new_time]

SetUpdateTimestampStart(s, value) ==
    [s EXCEPT !.update_timestamp_start = value,
              !.prefs["update-timestamp-start"] = value]

\* Not persisted.
SetUpdateTimestampEnd(s, value) == [s EXCEPT !.update_timestamp_end = value]

SetUpdateDurationUptimeExtended(s, value, timestamp) ==
    [s EXCEPT !.update_duration_uptime = value,
              !.update_duration_uptime_timestamp = timestamp,
              !.prefs["update-duration-uptime"] = value]

SetUpdateDurationUptime(s, value) ==
    SetUpdateDurationUptimeExtended(s, value, monotonic)

\* The extra slot is written in memory only: it has no key.
SetCurrentBytesDownloaded(s, source, current_bytes_downloaded) ==
    IF source < kNumDownloadSources
    THEN [s EXCEPT !.current_bytes_downloaded[source] = current_bytes_downloaded,
                   !.prefs[GetPrefsKey("current-bytes-downloaded-", source)] =
                       current_bytes_downloaded]
    ELSE [s EXCEPT !.current_bytes_downloaded[kNumDownloadSources] =
                       current_bytes_downloaded]

\* The total of a source overwritten with the bytes of the current attempt.
SetTotalBytesDownloadedAsCurrent(s, source, total_bytes_downloaded) ==
    IF source < kNumDownloadSources
    THEN [s EXCEPT !.total_bytes_downloaded[source] =
                       s.current_bytes_downloaded[source],
                   !.prefs[GetPrefsKey("total-bytes-downloaded-", source)] =
                       s.current_bytes_downloaded[source]]
    ELSE s

SetTotalBytesDownloaded(s, source, total_bytes_downloaded) ==
    IF source < kNumDownloadSources
    THEN [s EXCEPT !.total_bytes_downloaded[source] = total_bytes_downloaded,
                   !.prefs[GetPrefsKey("total-bytes-downloaded-", source)] =
                       total_bytes_downloaded]
    ELSE [s EXCEPT !.total_bytes_downloaded[kNumDownloadSources] =
                       total_bytes_downloaded]

SetNumResponsesSeen(s, num_responses_seen) ==
    [s EXCEPT !.num_responses_seen = num_responses_seen,
              !.prefs["num-responses-seen"] = num_responses_seen]

SetNumReboots(s, num_reboots) ==
    [s EXCEPT !.num_reboots = num_reboots,
              !.prefs["num-reboots"] = num_reboots]

\* The blacklisted version kept in memory and never stored.
SetRollbackVersionUnsaved(s, rollback_version) ==
    [s EXCEPT !.rollback_version = rollback_version]

SetRollbackVersion(s, rollback_version) ==
    [s EXCEPT !.rollback_version = rollback_version,
              !.powerwash_safe_prefs["rollback-version"] = rollback_version]

\* The blacklisted version left in place.
ResetRollbackVersionSkipped(s) == s

ResetRollbackVersion(s) == SetRollbackVersion(s, "")

-----------------------------------------------------------------------------
(* The response tracker. *)

\* The fields of the response that affect the payload state, in a fixed
\* order: the manifest version, the payload size, the hash, and for each
\* payload URL in order its string, failure limit and download source.
CalculateResponseSignature(r) ==
    <<r.version, r.size, r.hash,
      [i \in 1 .. Len(r.payload_urls) |->
          <<r.payload_urls[i].url, r.max_failure_count_per_url,
            r.payload_urls[i].source>>]>>

UrlAllowed(u, http_allowed) == http_allowed \/ ~u.needs_http

\* The payload URLs device policy allows, in the response's order.
ComputeCandidateUrls(s, http_allowed) ==
    [s EXCEPT !.candidate_urls =
        SelectSeq(s.response_.payload_urls,
                  LAMBDA u : UrlAllowed(u, http_allowed))]

UpdateCurrentDownloadSource(s) ==
    [s EXCEPT !.current_download_source =
        IF s.url_index < Len(s.candidate_urls)
        THEN s.candidate_urls[s.url_index + 1].source
        ELSE kNumDownloadSources]

-----------------------------------------------------------------------------
(* The backoff policy. *)

\* The fuzz applied to a backoff duration, in percent.
FuzzPercents == {-5, 5}

\* The doubling left without its cap.
BackoffDaysUncapped(n) == Pow2(n - 1)

BackoffDays(n) == Min(Pow2(n - 1), kMaxBackoffDays)

UpdateBackoffExpiryTime(s, fuzz) ==
    IF s.full_payload_attempt_number = 0
    THEN SetBackoffExpiryTime(s, Epoch)
    ELSE SetBackoffExpiryTime(s,
            wallclock
            + (BackoffDays(s.full_payload_attempt_number) * Day * (100 + fuzz))
              \div 100)

ShouldBackoffDownload(s) == wallclock < s.backoff_expiry_time

-----------------------------------------------------------------------------
(* The attempt sequencer. *)

\* The attempt counted on the counter of full payloads.
IncrementPayloadAttemptNumberAsFull(s) ==
    SetFullPayloadAttemptNumber(s, s.full_payload_attempt_number + 1)

IncrementPayloadAttemptNumber(s) ==
    SetPayloadAttemptNumber(s, s.payload_attempt_number + 1)

IncrementFullPayloadAttemptNumber(s) ==
    SetFullPayloadAttemptNumber(s, s.full_payload_attempt_number + 1)

IsFullPayload(s) == ~s.response_.is_delta_payload

\* The wrap tested one URL too late.
NextUrlIndexWrapsLate(s) == s.url_index + 1 > Len(s.candidate_urls)

\* Whether the advance of the URL index exhausts the candidate list.
NextUrlIndexWraps(s) == s.url_index + 1 >= Len(s.candidate_urls)

IncrementUrlIndex(s, fuzz) ==
    LET advanced ==
            IF NextUrlIndexWraps(s)
            THEN LET s1 == IncrementPayloadAttemptNumber(SetUrlIndex(s, 0))
                     s2 == IF IsFullPayload(s1)
                           THEN IncrementFullPayloadAttemptNumber(s1)
                           ELSE s1
                 IN  UpdateBackoffExpiryTime(s2, fuzz)
            ELSE SetUrlIndex(s, s.url_index + 1)
        switched == SetUrlSwitchCount(advanced, advanced.url_switch_count + 1)
    IN  UpdateCurrentDownloadSource(SetUrlFailureCount(switched, 0))

\* The limit tested with > where the count has to reach it.
IncrementFailureCountOffByOne(s, fuzz) ==
    LET counted == SetUrlFailureCount(s, s.url_failure_count + 1)
    IN  IF counted.url_failure_count > s.response_.max_failure_count_per_url
        THEN IncrementUrlIndex(counted, fuzz)
        ELSE counted

IncrementFailureCount(s, fuzz) ==
    LET counted == SetUrlFailureCount(s, s.url_failure_count + 1)
    IN  IF counted.url_failure_count >= s.response_.max_failure_count_per_url
        THEN IncrementUrlIndex(counted, fuzz)
        ELSE counted

\* The totals zeroed along with the bytes of the current attempt.
ResetDownloadSourcesWithTotals(s) ==
    [s EXCEPT !.current_bytes_downloaded = ZeroBytes,
              !.total_bytes_downloaded = ZeroBytes,
              !.prefs = [k \in DOMAIN s.prefs |->
                  IF k \in BytesKeys("current-bytes-downloaded-")
                          \cup BytesKeys("total-bytes-downloaded-")
                  THEN 0 ELSE s.prefs[k]]]

ResetDownloadSourcesOnNewUpdate(s) ==
    [s EXCEPT !.current_bytes_downloaded = ZeroBytes,
              !.prefs = [k \in DOMAIN s.prefs |->
                  IF k \in BytesKeys("current-bytes-downloaded-")
                  THEN 0 ELSE s.prefs[k]]]

\* The download source refreshed before the URL index is reset.
ResetPersistedStateStaleSource(s) ==
    LET s1 == SetPayloadAttemptNumber(UpdateCurrentDownloadSource(s), 0)
        s2 == SetFullPayloadAttemptNumber(s1, 0)
        s3 == SetUrlIndex(s2, 0)
        s4 == SetUrlFailureCount(s3, 0)
        s5 == SetUrlSwitchCount(s4, 0)
        s6 == UpdateBackoffExpiryTime(s5, 0)
    IN  ResetDownloadSourcesOnNewUpdate(s6)

\* The reset that leaves the counter of full payloads as it was.
ResetPersistedStateKeepsFullAttempts(s) ==
    LET s1 == SetPayloadAttemptNumber(s, 0)
        s3 == SetUrlIndex(s1, 0)
        s4 == SetUrlFailureCount(s3, 0)
        s5 == SetUrlSwitchCount(s4, 0)
        s6 == UpdateBackoffExpiryTime(s5, 0)
    IN  UpdateCurrentDownloadSource(ResetDownloadSourcesOnNewUpdate(s6))

\* Resets the state kept relative to the current response signature; the
\* signature itself is not reset.
ResetPersistedState(s) ==
    LET s1 == SetPayloadAttemptNumber(s, 0)
        s2 == SetFullPayloadAttemptNumber(s1, 0)
        s3 == SetUrlIndex(s2, 0)
        s4 == SetUrlFailureCount(s3, 0)
        s5 == SetUrlSwitchCount(s4, 0)
        s6 == UpdateBackoffExpiryTime(s5, 0)
    IN  UpdateCurrentDownloadSource(ResetDownloadSourcesOnNewUpdate(s6))

-----------------------------------------------------------------------------
(* The duration and bytes accountant. *)

GetUpdateDuration(s) ==
    LET end_time == IF s.update_timestamp_end # Epoch
                    THEN s.update_timestamp_end ELSE wallclock
    IN  IF end_time < s.update_timestamp_start
        THEN 0 ELSE end_time - s.update_timestamp_start

GetUpdateDurationUptime(s) ==
    s.update_duration_uptime + (monotonic - s.update_duration_uptime_timestamp)

\* The elapsed uptime folded in with the running timestamp left where it was.
CalculateUpdateDurationUptimeKeepsTimestamp(s) ==
    SetUpdateDurationUptimeExtended(s, GetUpdateDurationUptime(s),
                                    s.update_duration_uptime_timestamp)

CalculateUpdateDurationUptime(s) ==
    SetUpdateDurationUptimeExtended(s, GetUpdateDurationUptime(s), monotonic)

\* Re-anchors the running timestamp without folding the elapsed uptime in.
SetUpdateDurationUptimeTimestamp(s) ==
    [s EXCEPT !.update_duration_uptime_timestamp = monotonic]

\* The byte counts a progress event carries.
ProgressCounts == {0, 1}

\* The bytes counted for the attempt but not for the total.
UpdateBytesDownloadedCurrentOnly(s, count) ==
    SetCurrentBytesDownloaded(s, s.current_download_source,
        s.current_bytes_downloaded[s.current_download_source] + count)

UpdateBytesDownloaded(s, count) ==
    LET source == s.current_download_source
        s1 == SetCurrentBytesDownloaded(s, source,
                  s.current_bytes_downloaded[source] + count)
    IN  SetTotalBytesDownloaded(s1, source,
            s.total_bytes_downloaded[source] + count)

-----------------------------------------------------------------------------
(* Loading the persisted state. *)

LoadResponseSignature(s) ==
    [s EXCEPT !.response_signature = s.prefs["response-signature"]]

LoadPayloadAttemptNumber(s) ==
    [s EXCEPT !.payload_attempt_number =
        GetPersistedValue(s, "payload-attempt-number")]

LoadFullPayloadAttemptNumber(s) ==
    [s EXCEPT !.full_payload_attempt_number =
        GetPersistedValue(s, "full-payload-attempt-number")]

LoadUrlIndex(s) ==
    [s EXCEPT !.url_index = GetPersistedValue(s, "current-url-index")]

LoadUrlFailureCount(s) ==
    [s EXCEPT !.url_failure_count =
        GetPersistedValue(s, "current-url-failure-count")]

LoadUrlSwitchCount(s) ==
    [s EXCEPT !.url_switch_count = GetPersistedValue(s, "url-switch-count")]

LoadBackoffExpiryTime(s) ==
    [s EXCEPT !.backoff_expiry_time =
        GetPersistedValue(s, "backoff-expiry-time")]

LoadUpdateTimestampStart(s) ==
    [s EXCEPT !.update_timestamp_start =
        GetPersistedValue(s, "update-timestamp-start")]

LoadUpdateDurationUptime(s) ==
    [s EXCEPT !.update_duration_uptime =
        GetPersistedValue(s, "update-duration-uptime")]

LoadCurrentBytesDownloaded(s) ==
    [s EXCEPT !.current_bytes_downloaded =
        [i \in SourceSlots |->
            IF i < kNumDownloadSources
            THEN GetPersistedValue(s, GetPrefsKey("current-bytes-downloaded-", i))
            ELSE 0]]

LoadTotalBytesDownloaded(s) ==
    [s EXCEPT !.total_bytes_downloaded =
        [i \in SourceSlots |->
            IF i < kNumDownloadSources
            THEN GetPersistedValue(s, GetPrefsKey("total-bytes-downloaded-", i))
            ELSE 0]]

LoadNumResponsesSeen(s) ==
    [s EXCEPT !.num_responses_seen =
        GetPersistedValue(s, "num-responses-seen")]

LoadNumReboots(s) ==
    [s EXCEPT !.num_reboots = GetPersistedValue(s, "num-reboots")]

LoadRollbackVersion(s) ==
    [s EXCEPT !.rollback_version = s.powerwash_safe_prefs["rollback-version"]]

\* A fresh object on the given stores, every persisted field loaded.
Initialize(prefs, powerwash_safe_prefs) ==
    LoadRollbackVersion(LoadNumReboots(LoadNumResponsesSeen(
    LoadTotalBytesDownloaded(LoadCurrentBytesDownloaded(
    LoadUpdateDurationUptime(LoadUpdateTimestampStart(LoadBackoffExpiryTime(
    LoadUrlSwitchCount(LoadUrlFailureCount(LoadUrlIndex(
    LoadFullPayloadAttemptNumber(LoadPayloadAttemptNumber(
    LoadResponseSignature(
        PayloadState(prefs, powerwash_safe_prefs)))))))))))))))

-----------------------------------------------------------------------------
(* The reboot and rollback tracker. *)

\* A reboot counted at every start of the engine.
UpdateNumRebootsEveryStart(s) ==
    [SetNumReboots(s, s.num_reboots + 1)
        EXCEPT !.prefs["previous-boot-id"] = boot_id]

\* Counts a reboot when the boot id differs from the one stored last.
UpdateNumReboots(s) ==
    IF s.prefs["previous-boot-id"] # boot_id
    THEN [SetNumReboots(s, s.num_reboots + 1)
             EXCEPT !.prefs["previous-boot-id"] = boot_id]
    ELSE s

\* The marker written with the monotonic clock.
CreateSystemUpdatedMarkerFileUptime(s) ==
    [s EXCEPT !.prefs["system-updated-marker"] = monotonic]

CreateSystemUpdatedMarkerFile(s) ==
    [s EXCEPT !.prefs["system-updated-marker"] = wallclock]

SystemUpdatedMarkerPresent(s) == s.prefs["system-updated-marker"] >= 0

\* Whether this start of the engine finds the device booted into the update
\* it applied: the marker is there and the running version is the target.
BootedIntoTarget(s) ==
    /\ SystemUpdatedMarkerPresent(s)
    /\ s.prefs["target-version-uid"] = running_version

\* The time_to_reboot handed to BootedIntoUpdate, -1 when it is not called.
TimeToReboot(s) ==
    IF BootedIntoTarget(s)
    THEN wallclock - s.prefs["system-updated-marker"]
    ELSE -1

BootedIntoUpdate(s) ==
    IF BootedIntoTarget(s)
    THEN [s EXCEPT !.prefs["system-updated-marker"] = Absent]
    ELSE s

ExpectRebootInNewVersion(s, target_version_uid) ==
    [s EXCEPT !.prefs["target-version-uid"] = target_version_uid,
              !.prefs["target-version-attempts"] = 1]

ReportFailedBootIfNeeded(s) ==
    IF s.prefs["target-version-uid"] # ""
       /\ s.prefs["target-version-uid"] # running_version
    THEN [s EXCEPT !.prefs["target-version-attempts"] =
             GetPersistedValue(s, "target-version-attempts") + 1]
    ELSE [s EXCEPT !.prefs["target-version-uid"] = "",
                   !.prefs["target-version-attempts"] = Absent]

UpdateEngineStarted(s) ==
    ReportFailedBootIfNeeded(BootedIntoUpdate(UpdateNumReboots(s)))

Rollback(s) ==
    ResetPersistedState(SetRollbackVersion(s, running_version))

-----------------------------------------------------------------------------
(* The events of the driver. *)

\* An index outside the list taken for tampering: the whole state reset.
ClampUrlIndexByReset(s) ==
    IF s.url_index < Len(s.candidate_urls) THEN s ELSE ResetPersistedState(s)

\* The URL index brought back inside the candidate list.
ClampUrlIndex(s) ==
    IF s.url_index < Len(s.candidate_urls) THEN s
    ELSE IF Len(s.candidate_urls) = 0 THEN SetUrlIndex(s, 0)
    ELSE SetUrlIndex(s, Len(s.candidate_urls) - 1)

\* A new response supersedes the current one; the version blacklisted by a
\* rollback holds only until then.
SetNewResponse(s, new_response_signature, http_allowed) ==
    LET s1 == ResetPersistedState(s)
        s2 == SetResponseSignature(s1, new_response_signature)
        s3 == ComputeCandidateUrls(s2, http_allowed)
        s4 == SetNumResponsesSeen(s3, s3.num_responses_seen + 1)
        s5 == SetUpdateTimestampStart(s4, wallclock)
        s6 == SetUpdateDurationUptimeTimestamp(s5)
    IN  UpdateCurrentDownloadSource(ResetRollbackVersion(s6))

SetResponse(s, response, http_allowed) ==
    LET s0 == [s EXCEPT !.response_ = response]
        new_response_signature == CalculateResponseSignature(response)
    IN  IF new_response_signature = s.response_signature
        THEN UpdateCurrentDownloadSource(
                 ClampUrlIndex(ComputeCandidateUrls(s0, http_allowed)))
        ELSE SetNewResponse(s0, new_response_signature, http_allowed)

DownloadComplete(s) ==
    LET s1 == IncrementPayloadAttemptNumber(s)
        s2 == IF IsFullPayload(s1)
              THEN IncrementFullPayloadAttemptNumber(s1) ELSE s1
    IN  SetUrlFailureCount(s2, 0)

\* The first progress of an attempt is the one that finds no byte counted.
DownloadProgress(s, count) ==
    LET first == \A i \in SourceSlots : s.current_bytes_downloaded[i] = 0
        s1 == UpdateBytesDownloaded(s, count)
    IN  IF first THEN SetUpdateDurationUptimeTimestamp(s1) ELSE s1

UpdateResumed(s) == SetUpdateDurationUptimeTimestamp(s)

UpdateRestarted(s) ==
    SetUpdateDurationUptimeTimestamp(
        SetUpdateTimestampStart(ResetDownloadSourcesOnNewUpdate(s), wallclock))

UpdateSucceeded(s) ==
    LET s1 == CalculateUpdateDurationUptime(s)
        s2 == SetUpdateTimestampEnd(s1, wallclock)
        s3 == ResetPersistedState(s2)
        s4 == [s3 EXCEPT !.total_bytes_downloaded = ZeroBytes,
                         !.prefs = [k \in DOMAIN s3.prefs |->
                             IF k \in BytesKeys("total-bytes-downloaded-")
                             THEN 0 ELSE s3.prefs[k]]]
        s5 == SetNumReboots(SetNumResponsesSeen(s4, 0), 0)
    IN  CreateSystemUpdatedMarkerFile(ResetRollbackVersion(s5))

ErrorCodes ==
    {"kSuccess", "kError", "kOmahaError", "kDownloadTransferError",
     "kPayloadHashMismatchError", "kDownloadMetadataSignatureMismatch",
     "kSignedDeltaPayloadExpectedError", "kDownloadWriteError"}

SkipToNextUrlErrors ==
    {"kOmahaError", "kPayloadHashMismatchError",
     "kDownloadMetadataSignatureMismatch", "kSignedDeltaPayloadExpectedError"}

FatalErrors == {"kError"}

\* Every error counted as a failure of the current URL.
UpdateFailedCountsEveryError(s, error, fuzz) ==
    IF error = "kSuccess" THEN s
    ELSE IncrementFailureCount(
             SetUpdateTimestampEnd(CalculateUpdateDurationUptime(s), wallclock),
             fuzz)

UpdateFailed(s, error, fuzz) ==
    IF error = "kSuccess" THEN s
    ELSE LET s1 == CalculateUpdateDurationUptime(s)
             s2 == SetUpdateTimestampEnd(s1, wallclock)
         IN  IF error \in SkipToNextUrlErrors THEN IncrementUrlIndex(s2, fuzz)
             ELSE IF error \in FatalErrors
                  THEN ResetDownloadSourcesOnNewUpdate(s2)
             ELSE IncrementFailureCount(s2, fuzz)

ResetUpdateStatus(s) == ResetPersistedState(s)

-----------------------------------------------------------------------------
(* The state machine. *)

TotalBytes(s) ==
    s.total_bytes_downloaded[0] + s.total_bytes_downloaded[1]
    + s.total_bytes_downloaded[2] + s.total_bytes_downloaded[3]

\* The counters are not pushed beyond the bounds of the model.
Bounded(s) ==
    /\ s.payload_attempt_number <= MaxCount
    /\ s.full_payload_attempt_number <= MaxCount
    /\ s.url_switch_count <= MaxSwitches
    /\ s.num_responses_seen <= MaxCount
    /\ s.num_reboots <= MaxCount
    /\ s.prefs["target-version-attempts"] <= MaxCount
    /\ TotalBytes(s) <= MaxBytes

Event(s) ==
    /\ Bounded(s)
    /\ ps' = s
    /\ UNCHANGED <<wallclock, monotonic, boot_id, running_version>>

Init ==
    /\ wallclock = 1
    /\ monotonic = 0
    /\ boot_id = 0
    /\ running_version = "v0"
    /\ ps = Initialize(EmptyPrefs, EmptyPowerwashSafePrefs)

SetResponseEvent ==
    \E response \in Responses, http_allowed \in BOOLEAN :
        Event(SetResponse(ps, response, http_allowed))

DownloadProgressEvent ==
    \E count \in ProgressCounts : Event(DownloadProgress(ps, count))

DownloadCompleteEvent == Event(DownloadComplete(ps))

UpdateResumedEvent == Event(UpdateResumed(ps))

UpdateRestartedEvent == Event(UpdateRestarted(ps))

UpdateSucceededEvent == Event(UpdateSucceeded(ps))

\* The fuzz is drawn only where the failure makes the backoff run.
UpdateFailedEvent ==
    \E error \in ErrorCodes :
        \E fuzz \in IF UpdateFailed(ps, error, -5) = UpdateFailed(ps, error, 5)
                    THEN {0} ELSE FuzzPercents :
            Event(UpdateFailed(ps, error, fuzz))

ResetUpdateStatusEvent == Event(ResetUpdateStatus(ps))

RollbackEvent == Event(Rollback(ps))

\* The driver expects the version of the response it applied.
ExpectRebootInNewVersionEvent ==
    /\ ps.response_ # NoResponse
    /\ Event(ExpectRebootInNewVersion(ps, ps.response_.version))

UpdateEngineStartedEvent == Event(UpdateEngineStarted(ps))

\* The process ends and a fresh object loads from the same stores.
Restart == Event(Initialize(ps.prefs, ps.powerwash_safe_prefs))

\* The device reboots, into the version it ran or into the one it expects;
\* a powerwash wipes the ordinary store on the way.  The monotonic clock
\* starts again.
Reboot ==
    \E powerwash \in BOOLEAN,
       version \in {running_version, ps.prefs["target-version-uid"]} \ {""} :
        /\ boot_id < MaxCount
        /\ boot_id' = boot_id + 1
        /\ monotonic' = 0
        /\ running_version' = version
        /\ ps' = [Initialize(IF powerwash THEN EmptyPrefs ELSE ps.prefs,
                             ps.powerwash_safe_prefs)
                     EXCEPT !.update_duration_uptime_timestamp = 0]
        /\ UNCHANGED wallclock

Tick ==
    /\ wallclock <= MaxClock
    /\ wallclock' = wallclock + 1
    /\ monotonic' = monotonic + 1
    /\ UNCHANGED <<ps, boot_id, running_version>>

\* The handlers of the object and the restart of the process.
Handlers ==
    \/ SetResponseEvent
    \/ DownloadProgressEvent
    \/ DownloadCompleteEvent
    \/ UpdateResumedEvent
    \/ UpdateRestartedEvent
    \/ UpdateSucceededEvent
    \/ UpdateFailedEvent
    \/ ResetUpdateStatusEvent
    \/ RollbackEvent
    \/ UpdateEngineStartedEvent
    \/ Restart

\* The tighter bounds of the specification whose clocks move.
Few ==
    /\ TotalBytes(ps) <= MaxClockBytes
    /\ ps.url_switch_count <= MaxClockSwitches

\* The events of one boot of the device, time passing between them.
Next ==
    \/ SetResponseEvent /\ Few'
    \/ DownloadProgressEvent /\ Few'
    \/ DownloadCompleteEvent /\ Few'
    \/ UpdateResumedEvent /\ Few'
    \/ UpdateRestartedEvent /\ Few'
    \/ UpdateSucceededEvent /\ Few'
    \/ UpdateFailedEvent /\ Few'
    \/ ResetUpdateStatusEvent /\ Few'
    \/ RollbackEvent /\ Few'
    \/ UpdateEngineStartedEvent /\ Few'
    \/ Restart /\ Few'
    \/ Tick

Spec == Init /\ [][Next]_vars

\* The same events within one instant of the clocks: the specification of
\* the claims about counters, which no handler computes from a clock.
SpecCounters == Init /\ [][Handlers]_vars

-----------------------------------------------------------------------------
(* The object started on a store it finds: any signature, and any          *)
(* non-negative attempt number, URL index and failure count, as a store    *)
(* written by another version of the program or damaged may hold.          *)

StoredPrefs ==
    {[EmptyPrefs EXCEPT !["response-signature"] = signature,
                        !["payload-attempt-number"] = attempt,
                        !["full-payload-attempt-number"] = attempt,
                        !["current-url-index"] = index,
                        !["current-url-failure-count"] = failures] :
        signature \in {<< >>} \cup {CalculateResponseSignature(r) : r \in Responses},
        attempt \in 0 .. MaxStoredAttempt,
        index \in 0 .. MaxStored,
        failures \in 0 .. MaxStored}

InitStored ==
    /\ wallclock \in 1 .. (MaxClock + 1)
    /\ monotonic = 0
    /\ boot_id = 0
    /\ running_version = "v0"
    /\ \E prefs \in StoredPrefs : ps = Initialize(prefs, EmptyPowerwashSafePrefs)

BoundedStored(s) ==
    /\ s.payload_attempt_number <= MaxStoredAttempt + 1
    /\ s.url_switch_count <= MaxCount
    /\ s.num_responses_seen <= MaxCount

EventStored(s) ==
    /\ BoundedStored(s)
    /\ ps' = s
    /\ UNCHANGED <<wallclock, monotonic, boot_id, running_version>>

SetResponseStored ==
    \E response \in Responses, http_allowed \in BOOLEAN :
        EventStored(SetResponse(ps, response, http_allowed))

UpdateFailedStored ==
    \E error \in ErrorCodes :
        \E fuzz \in IF UpdateFailed(ps, error, -5) = UpdateFailed(ps, error, 5)
                    THEN {0} ELSE FuzzPercents :
            EventStored(UpdateFailed(ps, error, fuzz))

DownloadCompleteStored == EventStored(DownloadComplete(ps))

RestartStored == EventStored(Initialize(ps.prefs, ps.powerwash_safe_prefs))

NextStored ==
    \/ SetResponseStored
    \/ UpdateFailedStored
    \/ DownloadCompleteStored
    \/ RestartStored

SpecStored == InitStored /\ [][NextStored]_vars

-----------------------------------------------------------------------------
(* The device across reboots: an update is offered, fails or succeeds, the *)
(* driver announces the version it expects, the device reboots (with or    *)
(* without a powerwash) and the engine starts again.                       *)

BoundedBoot(s) ==
    /\ s.payload_attempt_number <= MaxCount
    /\ s.url_switch_count <= MaxCount
    /\ s.num_responses_seen <= MaxCount
    /\ s.num_reboots <= MaxReboots
    /\ s.prefs["target-version-attempts"] <= MaxCount
    /\ TotalBytes(s) <= MaxClockBytes

EventBoot(s) ==
    /\ BoundedBoot(s)
    /\ ps' = s
    /\ UNCHANGED <<wallclock, monotonic, boot_id, running_version>>

SetResponseBoot ==
    \E response \in Responses : EventBoot(SetResponse(ps, response, TRUE))

DownloadProgressBoot ==
    \E count \in ProgressCounts : EventBoot(DownloadProgress(ps, count))

UpdateFailedBoot ==
    \E error \in {"kDownloadTransferError", "kOmahaError"} :
        EventBoot(UpdateFailed(ps, error, 5))

UpdateSucceededBoot == EventBoot(UpdateSucceeded(ps))

ExpectRebootInNewVersionBoot ==
    /\ ps.response_ # NoResponse
    /\ EventBoot(ExpectRebootInNewVersion(ps, ps.response_.version))

RollbackBoot == EventBoot(Rollback(ps))

UpdateEngineStartedBoot == EventBoot(UpdateEngineStarted(ps))

NextBoot ==
    \/ SetResponseBoot
    \/ DownloadProgressBoot
    \/ UpdateFailedBoot
    \/ UpdateSucceededBoot
    \/ ExpectRebootInNewVersionBoot
    \/ RollbackBoot
    \/ UpdateEngineStartedBoot
    \/ Reboot
    \/ Tick

SpecBoot == Init /\ [][NextBoot]_vars

-----------------------------------------------------------------------------
(* The claims. *)

CandidateCount == Len(ps.candidate_urls)

\* C1 as stated: url_index is 0 when candidate_urls is empty and otherwise
\* 0 <= url_index < len(candidate_urls).
C1_UrlIndexZeroOrInRange ==
    IF CandidateCount = 0
    THEN ps.url_index = 0
    ELSE 0 <= ps.url_index /\ ps.url_index < CandidateCount

\* C1 as amended: whenever candidate_urls is not empty,
\* 0 <= url_index < len(candidate_urls), so GetCurrentUrl never indexes past
\* the candidate list; while the list is empty (after a restart, until the
\* next SetResponse) url_index keeps the persisted value and GetCurrentUrl
\* returns the empty string.
C1_UrlIndexInRangeOfCandidates ==
    /\ 0 <= ps.url_index
    /\ CandidateCount # 0 => ps.url_index < CandidateCount
    /\ CandidateCount = 0 => GetCurrentUrl(ps) = ""
    /\ GetCurrentUrl(ps) # "out-of-bounds"

\* The index stands on the last of several candidate URLs.
C1_Witness == CandidateCount > 1 /\ ps.url_index = CandidateCount - 1

ResponseScopedCountersZero(s) ==
    /\ s.payload_attempt_number = 0
    /\ s.full_payload_attempt_number = 0
    /\ s.url_index = 0
    /\ s.url_failure_count = 0
    /\ s.url_switch_count = 0

\* C2: in the state UpdateSucceeded leaves, the attempt numbers, url_index,
\* url_failure_count, url_switch_count and num_responses_seen are 0, the
\* current and total bytes of every source are 0 and rollback_version is
\* empty.
C2_SucceededResetsEverything ==
    LET t == UpdateSucceeded(ps)
    IN  /\ ResponseScopedCountersZero(t)
        /\ t.num_responses_seen = 0
        /\ \A i \in DownloadSources :
              /\ GetCurrentBytesDownloaded(t, i) = 0
              /\ GetTotalBytesDownloaded(t, i) = 0
              /\ t.prefs[GetPrefsKey("total-bytes-downloaded-", i)] = 0
        /\ t.rollback_version = ""
        /\ t.powerwash_safe_prefs["rollback-version"] = ""

\* UpdateSucceeded acts on a state with an attempt made, URLs switched,
\* bytes downloaded, a response seen and a version blacklisted.
C2_Witness ==
    /\ ps.payload_attempt_number > 0
    /\ ps.url_switch_count > 0
    /\ TotalBytes(ps) > 0
    /\ ps.num_responses_seen > 0
    /\ ps.rollback_version # ""
    /\ UpdateSucceeded(ps).rollback_version = ""

PersistedCountersEqual(s, t) ==
    /\ t.payload_attempt_number = s.payload_attempt_number
    /\ t.full_payload_attempt_number = s.full_payload_attempt_number
    /\ t.url_failure_count = s.url_failure_count
    /\ t.url_switch_count = s.url_switch_count
    /\ t.num_responses_seen = s.num_responses_seen
    /\ t.num_reboots = s.num_reboots
    /\ t.current_bytes_downloaded = s.current_bytes_downloaded
    /\ t.total_bytes_downloaded = s.total_bytes_downloaded

SameSignature(response) ==
    CalculateResponseSignature(response) = ps.response_signature

\* C3: SetResponse with a response of the stored signature changes no
\* persisted integer field, except that url_index may be reduced to fit the
\* recomputed candidate list; url_index never increases.
C3_SameResponseKeepsCounters ==
    \A response \in Responses, http_allowed \in BOOLEAN :
        SameSignature(response) =>
            LET t == SetResponse(ps, response, http_allowed)
            IN  /\ PersistedCountersEqual(ps, t)
                /\ PersistedCountersEqual(
                       Initialize(ps.prefs, ps.powerwash_safe_prefs),
                       Initialize(t.prefs, t.powerwash_safe_prefs))
                /\ t.url_index <= ps.url_index
                /\ t.url_index # ps.url_index =>
                       /\ ps.url_index >= Len(t.candidate_urls)
                       /\ t.url_index = IF Len(t.candidate_urls) = 0 THEN 0
                                        ELSE Len(t.candidate_urls) - 1

\* The same response arrives with fewer candidates than the index needs,
\* after an attempt and some bytes.
C3_Witness ==
    /\ ps.payload_attempt_number > 0
    /\ TotalBytes(ps) > 0
    /\ \E response \in Responses, http_allowed \in BOOLEAN :
          /\ SameSignature(response)
          /\ SetResponse(ps, response, http_allowed).url_index < ps.url_index

NewResponseResets(s, t) ==
    /\ t.num_responses_seen = s.num_responses_seen + 1
    /\ ResponseScopedCountersZero(t)
    /\ t.backoff_expiry_time = Epoch
    /\ \A i \in SourceSlots : t.current_bytes_downloaded[i] = 0
    /\ t.total_bytes_downloaded = s.total_bytes_downloaded

RECURSIVE FailTimes(_, _)
FailTimes(s, k) ==
    IF k = 0 THEN s
    ELSE FailTimes(UpdateFailed(s, "kDownloadTransferError", 0), k - 1)

\* C5: from a state with url_failure_count = 0, k consecutive UpdateFailed
\* events with a retryable transport error and threshold T advance the URL
\* index floor(k/T) times (url_switch_count grows by floor(k/T)) and leave
\* url_failure_count = k mod T.
C5_FailuresAdvanceEveryThreshold ==
    LET T == ps.response_.max_failure_count_per_url
    IN  (ps.url_failure_count = 0 /\ T >= 1) =>
            \A k \in 0 .. MaxFailures :
                LET t == FailTimes(ps, k)
                IN  /\ t.url_switch_count = ps.url_switch_count + (k \div T)
                    /\ t.url_failure_count = k % T

\* Three failures with threshold 2: one advance, one failure counted.
C5_Witness ==
    /\ ps.url_failure_count = 0
    /\ ps.response_.max_failure_count_per_url = 2
    /\ ps.url_index = 0
    /\ FailTimes(ps, 3).url_index = 1
    /\ FailTimes(ps, 3).url_failure_count = 1

\* The fuzz of a backoff duration, every whole percent of it.
FuzzRange == -5 .. 5

\* min(2^(n-1), 16) days, in the unit of the clocks.
CappedBackoff(n) == (IF n >= 5 THEN 16 ELSE Pow2(n - 1)) * Day

\* C6: UpdateBackoffExpiryTime with full_payload_attempt_number = n >= 1
\* leaves backoff_expiry_time later than the wall clock, by between 95% and
\* 105% of min(2^(n-1), 16) days; with n = 0 it leaves the epoch.
C6_BackoffWithinFuzzOfCappedDoubling ==
    \A fuzz \in FuzzRange :
        LET n == ps.full_payload_attempt_number
            t == UpdateBackoffExpiryTime(ps, fuzz)
            wait == t.backoff_expiry_time - wallclock
        IN  /\ t.prefs["backoff-expiry-time"] = t.backoff_expiry_time
            /\ n = 0 => t.backoff_expiry_time = Epoch
            /\ n >= 1 =>
                  /\ t.backoff_expiry_time > wallclock
                  /\ 95 * CappedBackoff(n) <= 100 * wait
                  /\ 100 * wait <= 105 * CappedBackoff(n)

\* The backoff has run beyond the cap, with the longest fuzz: the seventh
\* full attempt waits 16.8 days, not 64.
C6_Witness ==
    /\ ps.full_payload_attempt_number = 7
    /\ ps.backoff_expiry_time = wallclock + (16 * Day * 105) \div 100

\* C9: url_failure_count <= max_failure_count_per_url, after every event
\* of an object started on any store of non-negative values.
C9_FailureCountWithinLimit ==
    ps.response_ # NoResponse =>
        ps.url_failure_count <= ps.response_.max_failure_count_per_url

\* The fields the object keeps in the stores.
PersistedFields(s) ==
    <<s.response_signature, s.payload_attempt_number,
      s.full_payload_attempt_number, s.url_index, s.url_failure_count,
      s.url_switch_count, s.backoff_expiry_time, s.update_timestamp_start,
      s.update_duration_uptime,
      [i \in DownloadSources |-> s.current_bytes_downloaded[i]],
      [i \in DownloadSources |-> s.total_bytes_downloaded[i]],
      s.num_responses_seen, s.num_reboots, s.rollback_version>>

\* The fields the object keeps in memory only.
MemoryFields(s) ==
    <<s.response_, s.candidate_urls, s.current_download_source,
      s.update_timestamp_end, s.update_duration_uptime_timestamp,
      s.current_bytes_downloaded[kNumDownloadSources],
      s.total_bytes_downloaded[kNumDownloadSources]>>

\* C7: a fresh object that runs Initialize on the same stores has the value
\* the object had for every persisted field, and the defaults for the
\* fields kept in memory only.
C7_RestartRestoresPersistedFields ==
    LET t == Initialize(ps.prefs, ps.powerwash_safe_prefs)
    IN  /\ PersistedFields(t) = PersistedFields(ps)
        /\ MemoryFields(t) =
               MemoryFields(PayloadState(EmptyPrefs, EmptyPowerwashSafePrefs))
        /\ t.prefs = ps.prefs
        /\ t.powerwash_safe_prefs = ps.powerwash_safe_prefs

\* The process has restarted in the middle of an update: the fresh object
\* holds no response, and the fields it loaded are not the defaults.
C7_Witness ==
    /\ ps = Initialize(ps.prefs, ps.powerwash_safe_prefs)
    /\ ps.response_signature # << >>
    /\ ps.url_index > 0
    /\ ps.url_switch_count > 0
    /\ ps.update_duration_uptime > 0
    /\ ps.update_timestamp_start # Epoch
    /\ ps.num_responses_seen > 0
    /\ \E i \in DownloadSources : ps.total_bytes_downloaded[i] > 0

\* C8: ResetUpdateStatus called twice in a row, the clocks unchanged,
\* leaves the state ResetUpdateStatus called once leaves.
C8_ResetUpdateStatusIdempotent ==
    ResetUpdateStatus(ResetUpdateStatus(ps)) = ResetUpdateStatus(ps)

\* ResetUpdateStatus has something to reset.
C8_Witness ==
    /\ ps.url_index > 0
    /\ ps.payload_attempt_number > 0
    /\ ps.backoff_expiry_time # Epoch
    /\ \E i \in DownloadSources : ps.current_bytes_downloaded[i] > 0
    /\ ResetUpdateStatus(ps) # ps

\* C10: current_bytes_downloaded[s] <= total_bytes_downloaded[s] for every
\* download source s.
C10_CurrentBytesAtMostTotal ==
    \A i \in DownloadSources :
        GetCurrentBytesDownloaded(ps, i) <= GetTotalBytesDownloaded(ps, i)

\* Bytes were downloaded, the attempt was started afresh, and bytes were
\* downloaded again.
C10_Witness ==
    \E i \in DownloadSources :
        /\ 0 < ps.current_bytes_downloaded[i]
        /\ ps.current_bytes_downloaded[i] < ps.total_bytes_downloaded[i]

\* The states one event other than UpdateSucceeded and UpdateFailed leaves.
NonTerminalEvents(s) ==
    {SetResponse(s, response, http_allowed) :
        response \in Responses, http_allowed \in BOOLEAN}
    \cup {DownloadProgress(s, count) : count \in ProgressCounts}
    \cup {DownloadComplete(s), UpdateResumed(s), UpdateRestarted(s),
          Rollback(s), ResetUpdateStatus(s), UpdateEngineStarted(s)}

\* The states one UpdateFailed leaves, whatever the error.
FailedEvents(s) ==
    {UpdateFailed(s, error, fuzz) : error \in ErrorCodes, fuzz \in FuzzPercents}

\* C11: update_timestamp_end is the epoch while an update is in progress:
\* a SetResponse with a new signature, UpdateRestarted and UpdateResumed
\* leave it the epoch, and no event but UpdateSucceeded and UpdateFailed
\* moves it off the epoch.
C11_TimestampEndEpochInProgress ==
    /\ \A response \in Responses, http_allowed \in BOOLEAN :
          ~SameSignature(response) =>
              SetResponse(ps, response, http_allowed).update_timestamp_end
                  = Epoch
    /\ UpdateRestarted(ps).update_timestamp_end = Epoch
    /\ UpdateResumed(ps).update_timestamp_end = Epoch
    /\ ps.update_timestamp_end = Epoch =>
          \A t \in NonTerminalEvents(ps) : t.update_timestamp_end = Epoch

\* C12: no single event other than UpdateSucceeded lowers
\* total_bytes_downloaded[s] of any download source s, in memory or in the
\* store; UpdateSucceeded resets it to 0.
C12_TotalBytesNeverDecrease ==
    /\ \A t \in NonTerminalEvents(ps) \cup FailedEvents(ps),
          i \in DownloadSources :
          /\ t.total_bytes_downloaded[i] >= ps.total_bytes_downloaded[i]
          /\ GetPersistedValue(t, GetPrefsKey("total-bytes-downloaded-", i))
                = t.total_bytes_downloaded[i]
    /\ \A i \in DownloadSources :
          UpdateSucceeded(ps).total_bytes_downloaded[i] = 0

\* Bytes of an earlier attempt are in the total of a source when the events
\* that zero the bytes of the current attempt arrive.
C12_Witness ==
    \E i \in DownloadSources :
        /\ ps.current_bytes_downloaded[i] > 0
        /\ ps.total_bytes_downloaded[i] > ps.current_bytes_downloaded[i]
        /\ UpdateRestarted(ps).current_bytes_downloaded[i] = 0
        /\ UpdateRestarted(ps).total_bytes_downloaded[i]
              = ps.total_bytes_downloaded[i]
        /\ \E response \in Responses :
              /\ ~SameSignature(response)
              /\ SetResponse(ps, response, TRUE).total_bytes_downloaded[i]
                    = ps.total_bytes_downloaded[i]

\* C13: Rollback while the running version is V stores V as
\* rollback_version in the powerwash-safe store and resets the
\* response-scoped counters; after a powerwash and a restart
\* rollback_version is V and every field of the ordinary store is at its
\* default.
C13_RollbackSurvivesPowerwash ==
    LET t == Rollback(ps)
        u == Initialize(EmptyPrefs, t.powerwash_safe_prefs)
    IN  /\ t.rollback_version = running_version
        /\ t.powerwash_safe_prefs["rollback-version"] = running_version
        /\ ResponseScopedCountersZero(t)
        /\ ResponseScopedCountersZero(
               Initialize(t.prefs, t.powerwash_safe_prefs))
        /\ t.backoff_expiry_time = Epoch
        /\ \A i \in DownloadSources : t.current_bytes_downloaded[i] = 0
        /\ u.rollback_version = running_version
        /\ u = [PayloadState(EmptyPrefs, t.powerwash_safe_prefs)
                   EXCEPT !.rollback_version = running_version]

\* The device has rebooted through a powerwash after a rollback: the
\* ordinary store is empty and the blacklisted version is still there.
C13_Witness ==
    /\ boot_id > 0
    /\ ps.prefs = EmptyPrefs
    /\ ps.rollback_version = "v0"
    /\ ps.num_responses_seen = 0
    /\ ps.response_signature = << >>

\* C18: UpdateEngineStarted adds 1 to num_reboots and stores the boot id
\* when the boot id differs from the stored one, and leaves num_reboots
\* unchanged when they are equal; a second start within the same boot, in
\* the same process or after a restart of it, adds nothing.
C18_RebootCountedOncePerBoot ==
    LET t == UpdateEngineStarted(ps)
    IN  /\ ps.prefs["previous-boot-id"] # boot_id =>
              /\ t.num_reboots = ps.num_reboots + 1
              /\ t.prefs["num-reboots"] = t.num_reboots
        /\ ps.prefs["previous-boot-id"] = boot_id =>
              t.num_reboots = ps.num_reboots
        /\ t.prefs["previous-boot-id"] = boot_id
        /\ UpdateEngineStarted(t).num_reboots = t.num_reboots
        /\ UpdateEngineStarted(Initialize(t.prefs, t.powerwash_safe_prefs))
              .num_reboots = t.num_reboots

\* The engine starts in a second boot with the first one counted.
C18_Witness ==
    /\ boot_id = 1
    /\ ps.prefs["previous-boot-id"] = 0
    /\ ps.num_reboots = 1
    /\ UpdateEngineStarted(ps).num_reboots = 2

\* C19: UpdateSucceeded writes the marker with the wall-clock time; a start
\* of the engine that finds the marker and the running version equal to
\* the target version hands BootedIntoUpdate the time since the marker and
\* deletes the marker, so that the next start hands it nothing.
C19_BootedIntoUpdateReportedOnce ==
    LET t == UpdateSucceeded(ps)
        u == UpdateEngineStarted(ps)
        marker == ps.prefs["system-updated-marker"]
    IN  /\ t.prefs["system-updated-marker"] = wallclock
        /\ IF marker >= 0 /\ ps.prefs["target-version-uid"] = running_version
           THEN /\ TimeToReboot(ps) = wallclock - marker
                /\ TimeToReboot(ps) >= 0
                /\ u.prefs["system-updated-marker"] = Absent
                /\ TimeToReboot(u) = -1
                /\ TimeToReboot(UpdateEngineStarted(u)) = -1
           ELSE /\ TimeToReboot(ps) = -1
                /\ u.prefs["system-updated-marker"] = marker
        /\ marker = Absent =>
              \A v \in NonTerminalEvents(ps) \cup FailedEvents(ps) :
                  v.prefs["system-updated-marker"] = Absent

\* The device has rebooted into the version of the update it applied, some
\* time after the marker was written.
C19_Witness ==
    /\ boot_id = 1
    /\ running_version = "v1"
    /\ ps.prefs["target-version-uid"] = "v1"
    /\ ps.prefs["system-updated-marker"] >= 0
    /\ TimeToReboot(ps) = 1

\* The index an advance of the URL index leaves.
AdvancedUrlIndex(s) ==
    IF s.url_index + 1 < Len(s.candidate_urls) THEN s.url_index + 1 ELSE 0

\* C14: every advance of the URL index adds 1 to url_switch_count and
\* zeroes url_failure_count; the attempt numbers (the full one for a full
\* payload only) grow by 1 on an advance that wraps to index 0 and are
\* unchanged otherwise; exhausting the failure limit of each of N candidate
\* URLs once leaves url_index = 0, url_switch_count = N and
\* payload_attempt_number = 1.
C14_AdvanceCountsSwitchAndWrap ==
    /\ \A fuzz \in FuzzPercents :
          LET t == IncrementUrlIndex(ps, fuzz)
              wraps == ps.url_index + 1 >= CandidateCount
              full == IF ps.response_.is_delta_payload THEN 0 ELSE 1
          IN  /\ t.url_switch_count = ps.url_switch_count + 1
              /\ t.url_failure_count = 0
              /\ t.url_index = AdvancedUrlIndex(ps)
              /\ t.payload_attempt_number =
                    ps.payload_attempt_number + (IF wraps THEN 1 ELSE 0)
              /\ t.full_payload_attempt_number =
                    ps.full_payload_attempt_number
                    + (IF wraps THEN full ELSE 0)
    /\ LET T == ps.response_.max_failure_count_per_url
           t == FailTimes(ps, CandidateCount * T)
       IN  (CandidateCount >= 1 /\ T >= 1 /\ ResponseScopedCountersZero(ps)) =>
               /\ t.url_index = 0
               /\ t.url_switch_count = CandidateCount
               /\ t.payload_attempt_number = 1

\* A fresh response with several candidate URLs, each failing to its limit.
C14_Witness ==
    /\ CandidateCount >= 2
    /\ ResponseScopedCountersZero(ps)
    /\ ps.response_.max_failure_count_per_url = 2
    /\ LET t == FailTimes(ps, CandidateCount * 2)
       IN  /\ t.url_index = 0
           /\ t.url_switch_count = CandidateCount
           /\ t.full_payload_attempt_number = 1

\* C15: UpdateFailed with kOmahaError, kPayloadHashMismatchError,
\* kDownloadMetadataSignatureMismatch or kSignedDeltaPayloadExpectedError
\* advances the URL index once and zeroes url_failure_count whatever it
\* was; with kDownloadTransferError or an error the table does not hold it
\* leaves url_index unchanged unless the failure count reaches the
\* threshold; with kSuccess it changes nothing.
C15_ErrorClassesAdvanceOrCount ==
    \A fuzz \in FuzzPercents :
        /\ \A error \in {"kOmahaError", "kPayloadHashMismatchError",
                          "kDownloadMetadataSignatureMismatch",
                          "kSignedDeltaPayloadExpectedError"} :
              LET t == UpdateFailed(ps, error, fuzz)
              IN  /\ t.url_index = AdvancedUrlIndex(ps)
                  /\ t.url_switch_count = ps.url_switch_count + 1
                  /\ t.url_failure_count = 0
        /\ \A error \in {"kDownloadTransferError", "kDownloadWriteError"} :
              LET t == UpdateFailed(ps, error, fuzz)
              IN  ps.url_failure_count + 1
                      < ps.response_.max_failure_count_per_url =>
                      /\ t.url_index = ps.url_index
                      /\ t.url_switch_count = ps.url_switch_count
                      /\ t.url_failure_count = ps.url_failure_count + 1
        /\ UpdateFailed(ps, "kSuccess", fuzz) = ps

\* A failure is counted on the first of several URLs when the error comes.
C15_Witness ==
    /\ CandidateCount >= 2
    /\ ps.url_index = 0
    /\ ps.url_failure_count = 1
    /\ UpdateFailed(ps, "kPayloadHashMismatchError", 5).url_index = 1
    /\ UpdateFailed(ps, "kPayloadHashMismatchError", 5).url_failure_count = 0

\* C16: UpdateFailed with a fatal error leaves url_index,
\* url_failure_count, url_switch_count and both attempt numbers unchanged,
\* zeroes current_bytes_downloaded[s] of every source s and keeps
\* total_bytes_downloaded[s].
C16_FatalErrorClearsCurrentBytes ==
    \A error \in FatalErrors, fuzz \in FuzzPercents :
        LET t == UpdateFailed(ps, error, fuzz)
        IN  /\ t.url_index = ps.url_index
            /\ t.url_failure_count = ps.url_failure_count
            /\ t.url_switch_count = ps.url_switch_count
            /\ t.payload_attempt_number = ps.payload_attempt_number
            /\ t.full_payload_attempt_number = ps.full_payload_attempt_number
            /\ \A i \in DownloadSources :
                  /\ GetCurrentBytesDownloaded(t, i) = 0
                  /\ t.prefs[GetPrefsKey("current-bytes-downloaded-", i)] = 0
                  /\ GetTotalBytesDownloaded(t, i)
                        = GetTotalBytesDownloaded(ps, i)

\* The fatal error comes with bytes downloaded, a failure counted and a
\* URL switched.
C16_Witness ==
    /\ \E i \in DownloadSources : ps.current_bytes_downloaded[i] > 0
    /\ ps.url_failure_count > 0
    /\ ps.url_switch_count > 0
    /\ UpdateFailed(ps, "kError", 5).current_bytes_downloaded = ZeroBytes

\* C17: CalculateUpdateDurationUptime leaves what GetUpdateDurationUptime
\* returns at the same monotonic instant: it moves the uptime elapsed since
\* the running timestamp into the persisted update_duration_uptime and sets
\* the timestamp to now, so a second call changes nothing; and no event
\* but a new response lowers the persisted update_duration_uptime.
C17_UptimeFoldedOnce ==
    LET t == CalculateUpdateDurationUptime(ps)
    IN  /\ GetUpdateDurationUptime(t) = GetUpdateDurationUptime(ps)
        /\ t.update_duration_uptime =
              ps.update_duration_uptime
              + (monotonic - ps.update_duration_uptime_timestamp)
        /\ t.update_duration_uptime >= ps.update_duration_uptime
        /\ t.update_duration_uptime_timestamp = monotonic
        /\ t.prefs["update-duration-uptime"] = t.update_duration_uptime
        /\ CalculateUpdateDurationUptime(t) = t
        /\ \A v \in (NonTerminalEvents(ps) \cup FailedEvents(ps)
                      \cup {UpdateSucceeded(ps)})
                     \ {SetResponse(ps, response, http_allowed) :
                           response \in {r \in Responses : ~SameSignature(r)},
                           http_allowed \in BOOLEAN} :
              /\ v.update_duration_uptime >= ps.update_duration_uptime
              /\ GetPersistedValue(v, "update-duration-uptime")
                    = v.update_duration_uptime

\* Uptime has passed since the running timestamp of an update under way.
C17_Witness ==
    /\ ps.response_ # NoResponse
    /\ ps.update_duration_uptime_timestamp < monotonic
    /\ CalculateUpdateDurationUptime(ps).update_duration_uptime = 1

\* C20: backoff_expiry_time is the epoch when full_payload_attempt_number
\* is 0 and otherwise a value UpdateBackoffExpiryTime produces for the
\* current full_payload_attempt_number at some instant up to now.
C20_BackoffFollowsFullAttempts ==
    LET n == ps.full_payload_attempt_number
    IN  /\ n = 0 => ps.backoff_expiry_time = Epoch
        /\ n >= 1 =>
              \E now \in 1 .. wallclock, fuzz \in FuzzRange :
                  ps.backoff_expiry_time =
                      now + (CappedBackoff(n) * (100 + fuzz)) \div 100

\* C21: in every state reachable from the default state,
\* full_payload_attempt_number is at most payload_attempt_number, in memory
\* and in the store a restart loads them from.
C21_FullAttemptsAtMostAttempts ==
    /\ ps.full_payload_attempt_number <= ps.payload_attempt_number
    /\ GetPersistedValue(ps, "full-payload-attempt-number")
          <= GetPersistedValue(ps, "payload-attempt-number")

\* A full payload has been counted on both counters.
C21_Witness ==
    /\ ps.full_payload_attempt_number >= 1
    /\ ps.payload_attempt_number >= 1
    /\ GetPersistedValue(ps, "full-payload-attempt-number") >= 1

=============================================================================
